---- MODULE Spec2Model ----
(***************************************************************************)
(* A model of docker-to-bootable-modal.py: convert_docker_to_bootable_img  *)
(* as a state machine over the OS resources it drives (files of the        *)
(* conversion volume, loop devices, the mount table, containers).  Every   *)
(* external command is one step whose exit status is an input.             *)
(***************************************************************************)
EXTENDS Integers, Sequences, FiniteSets, TLC

VARIABLES
    active,       \* the invocations of convert that run in this execution
    req,          \* req[i]: the arguments of invocation i
    pc,           \* pc[i]: the statement invocation i is at
    exc,          \* exc[i]: the exception propagating in invocation i
    loop_device,  \* loop_device[i]: the local variable of line 131
    result,       \* result[i]: the dict returned by invocation i
    log,          \* log[i]: the commands invocation i has run, in order
    files,        \* the files under /tmp/conversion: path -> contents
    bare,         \* what lies in the directory /tmp/conversion/mnt itself
    loops,        \* loop device -> the image file bound to it
    mounts,       \* the mount table, in mount order
    containers,   \* the containers that exist
    budget,       \* how many more commands may fail in this execution
    registry,     \* docker image -> what its container filesystem holds
    conversion_dir,  \* whether the directory /tmp/conversion exists
    purge         \* the last call of cleanup_conversion_files and its result

vars == <<active, req, pc, exc, loop_device, result, log, files, bare, loops,
          mounts, containers, budget, registry, conversion_dir, purge>>

-----------------------------------------------------------------------------
(* Bounds of the model *)

\* the largest disk_size_mb requested
MaxDiskMb == 2
\* failing commands per execution of one invocation (more than a run can meet)
MaxFaults == 12
\* failing commands per execution of two concurrent invocations
MaxConcFaults == 0

Procs == {1, 2}

-----------------------------------------------------------------------------
(* Requests *)

\* docker_image values, as character sequences: "a:l", "d:s", "d/s"
DockerImages == {<<"a", ":", "l">>, <<"d", ":", "s">>, <<"d", "/", "s">>}
OutputFilenames == {"a.img", "b.img"}
\* the documented filesystem types (docstring, line 61)
DocumentedFsTypes == {"ext2", "ext3", "ext4"}
\* mkfs.<type> binaries of the image: e2fsprogs and dosfstools (lines 22-23)
InstalledMkfs == {"ext2", "ext3", "ext4", "vfat"}
RequestedFsTypes == {"ext4", "btrfs", "vfat"}

Requests == [docker_image : DockerImages, output_filename : OutputFilenames,
             disk_size_mb : 1..MaxDiskMb, filesystem_type : RequestedFsTypes]

\* what a container filesystem may hold that the pipeline looks at
\* (/etc/debian_version, the directory /sbin, the file /sbin/init)
Snapshots == {s \in [debian : BOOLEAN, sbin : BOOLEAN, init : BOOLEAN] :
                  s.init => s.sbin}

-----------------------------------------------------------------------------
(* Paths *)

ConversionDir == "/tmp/conversion"

\* str.replace(old, new) on a character sequence
Replace(s, old, new) == [k \in 1..Len(s) |-> IF s[k] = old THEN new ELSE s[k]]

\* line 92: the archive path of a docker image
TarPath(image) ==
    <<ConversionDir, Replace(Replace(image, ":", "_"), "/", "_"), ".tar">>

\* line 101: the path of the output image
ImgPath(filename) == <<ConversionDir, filename>>

\* line 142
MountPoint == <<ConversionDir, "mnt">>
ChildTarget(name) == <<ConversionDir, "mnt", name>>
BindNames == <<"dev", "proc", "sys">>

\* /dev/loop0 and /dev/loop1, by number; NoDevice where a device is absent
LoopDevs == {0, 1}
NoDevice == -1

-----------------------------------------------------------------------------
(* Finite maps *)

Put(f, k, v) == [x \in (DOMAIN f) \cup {k} |-> IF x = k THEN v ELSE f[x]]
Del(f, k) == [x \in (DOMAIN f) \ {k} |-> f[x]]
Exists(path) == path \in DOMAIN files

-----------------------------------------------------------------------------
(* Exceptions and the try/finally/except structure of lines 70-276 *)

NoExc == [kind |-> "none"]
\* subprocess.CalledProcessError: e.cmd and e.stderr (None unless captured)
CalledProcessError(cmd, stderr) ==
    [kind |-> "CalledProcessError", cmd |-> cmd, stderr |-> stderr]
\* any other subclass of Exception
OtherError(kind) == [kind |-> kind]

\* what capture_output=True puts in e.stderr, and what its absence leaves
Captured == "captured"
None == "None"

\* statements inside the try of line 148, left through the finally of line 221
InnerTry == {"tar", "detect", "bind_dev", "bind_proc", "bind_sys", "script",
             "chroot", "extlinux", "config", "init"}
\* statements inside the try of line 134 only, left through the finally of line 229
OuterTry == {"mkfs", "mount"}

\* the inner finally with the mount point unmounted first
InnerFinallyRootFirst == <<"umount_root", "umount_dev", "umount_proc", "umount_sys">>
\* the inner finally with the bind mounts unmounted last-mounted first
InnerFinallyReversed == <<"umount_sys", "umount_proc", "umount_dev", "umount_root">>
\* lines 224-227: the umount commands of the inner finally, in order
InnerFinally == <<"umount_dev", "umount_proc", "umount_sys", "umount_root">>

\* the outer try without its finally: a failed format or mount skips the detach
LandingSkipsDetach(label) ==
    IF label \in InnerTry THEN InnerFinally[1] ELSE "except"
\* the extraction failure swallowed where it happens: the run goes on
LandingSwallowsExtract(label) ==
    IF label = "tar" THEN "detect"
    ELSE IF label \in InnerTry THEN InnerFinally[1]
    ELSE IF label \in OuterTry THEN "detach"
    ELSE "except"
\* where control goes when the statement at label raises
Landing(label) ==
    IF label \in InnerTry THEN InnerFinally[1]
    ELSE IF label \in OuterTry THEN "detach"
    ELSE "except"

NoResult == [status |-> "none"]

\* lines 262-276: the dict an exception is turned into
\* the handlers without the catch-all of line 271
ResultOfWithoutCatchAll(e) ==
    IF e.kind = "CalledProcessError"
    THEN [status |-> "error", error |-> e.kind, command |-> e.cmd,
          stderr |-> e.stderr]
    ELSE [status |-> "raised", error |-> e.kind]
ResultOf(e) ==
    IF e.kind = "CalledProcessError"
    THEN [status |-> "error", error |-> e.kind, command |-> e.cmd,
          stderr |-> e.stderr]
    ELSE [status |-> "error", error |-> e.kind]

-----------------------------------------------------------------------------
(* The mount table and the trees under the mount point *)

RootIdx == {k \in 1..Len(mounts) : mounts[k].target = MountPoint}
TopRootIdx == IF RootIdx = {} THEN 0
              ELSE CHOOSE k \in RootIdx : \A j \in RootIdx : j <= k
\* the device whose filesystem is visible at the mount point
TopRootSrc == IF TopRootIdx = 0 THEN NoDevice ELSE mounts[TopRootIdx].dev

NoFile == <<>>
FileOf(dev) == IF dev = NoDevice THEN NoFile ELSE loops[dev].file

\* the tree a path under the mount point resolves into
CurrentTree ==
    IF TopRootSrc = NoDevice THEN bare
    ELSE IF FileOf(TopRootSrc) \in DOMAIN files
         THEN files[FileOf(TopRootSrc)].tree ELSE {}

FilesAfterWrite(tags) ==
    IF TopRootSrc # NoDevice /\ FileOf(TopRootSrc) \in DOMAIN files
    THEN [files EXCEPT ![FileOf(TopRootSrc)].tree = @ \cup tags]
    ELSE files
BareAfterWrite(tags) == IF TopRootSrc = NoDevice THEN bare \cup tags ELSE bare

RemoveAt(s, k) == [j \in 1..(Len(s) - 1) |-> IF j < k THEN s[j] ELSE s[j + 1]]

\* the entry `umount target` would release: the topmost mount at that path
\* as the path resolves now (a child is looked up on the visible root)
UmountIdx(target) ==
    IF target = MountPoint THEN TopRootIdx
    ELSE LET c == {k \in 1..Len(mounts) : /\ mounts[k].target = target
                                          /\ mounts[k].on = TopRootSrc}
         IN  IF c = {} THEN 0 ELSE CHOOSE k \in c : \A j \in c : j <= k

\* umount refuses a mount that has mounts beneath it (EBUSY)
Busy(k) == /\ mounts[k].target = MountPoint
           /\ \E j \in 1..Len(mounts) : mounts[j].on = mounts[k].dev

CanUmount(target) == UmountIdx(target) # 0 /\ ~Busy(UmountIdx(target))

IsMounted(dev) == \E k \in 1..Len(mounts) : mounts[k].dev = dev

\* a mount of a partition at the mount point, and a bind mount beneath it
HostRoot == -2
RootMount(dev) == [target |-> MountPoint, dev |-> dev, on |-> HostRoot]
BindMountOn(name, root) == [target |-> ChildTarget(name), dev |-> NoDevice, on |-> root]

\* part: the partition node /dev/loopNp1 exists
FreeLoop == [file |-> NoFile, autoclear |-> FALSE, part |-> FALSE]
\* losetup --find: the first unused loop device
FreeDevs == {d \in LoopDevs : loops[d].file = NoFile}
FirstFree == CHOOSE d \in FreeDevs : \A e \in FreeDevs : d <= e

-----------------------------------------------------------------------------
(* Steps *)

Goto(i, label) == pc' = [pc EXCEPT ![i] = label]
\* extlinux run with check=False: its failure raises nothing
RaiseUncheckedBootloader(i, e) ==
    IF pc[i] = "extlinux"
    THEN pc' = [pc EXCEPT ![i] = "config"] /\ UNCHANGED exc
    ELSE /\ pc' = [pc EXCEPT ![i] = Landing(pc[i])]
         /\ exc' = [exc EXCEPT ![i] = e]
\* the statement at pc[i] raises e
Raise(i, e) == /\ pc' = [pc EXCEPT ![i] = Landing(pc[i])]
               /\ exc' = [exc EXCEPT ![i] = e]
Logged(i, op, ok) == log' = [log EXCEPT ![i] = Append(@, [op |-> op, ok |-> ok])]
\* a command that exits nonzero uses up one of the failures of the execution
Charge(ok) == /\ ok \/ budget > 0
              /\ budget' = IF ok THEN budget ELSE budget - 1
\* a command that cannot succeed in the current state fails at no charge
ChargeUnless(ok, forced) == IF forced THEN ~ok /\ UNCHANGED budget ELSE Charge(ok)

At(i, label) == i \in active /\ pc[i] = label

\* lines 73-74: dockerd, check=False, timeout=10
StartDaemon(i) ==
    /\ At(i, "dockerd")
    /\ \E ok \in BOOLEAN :
        /\ Charge(ok)
        /\ Logged(i, "dockerd", ok)
        /\ IF ok THEN Goto(i, "pull") /\ UNCHANGED exc
                 ELSE Raise(i, OtherError("TimeoutExpired"))
    /\ UNCHANGED <<registry, conversion_dir, purge, active, req, loop_device, result, files, bare, loops, mounts,
                   containers>>

\* lines 78-81: docker pull, check=True, capture_output=True
Pull(i) ==
    /\ At(i, "pull")
    /\ \E ok \in BOOLEAN :
        /\ Charge(ok)
        /\ Logged(i, "pull", ok)
        /\ IF ok THEN Goto(i, "create") /\ UNCHANGED exc
                 ELSE Raise(i, CalledProcessError("docker pull", Captured))
    /\ UNCHANGED <<registry, conversion_dir, purge, active, req, loop_device, result, files, bare, loops, mounts,
                   containers>>

\* lines 85-89: docker create, check=True, capture_output=True
Create(i) ==
    /\ At(i, "create")
    /\ \E ok \in BOOLEAN :
        /\ Charge(ok)
        /\ Logged(i, "create", ok)
        /\ IF ok THEN /\ Goto(i, "export") /\ UNCHANGED exc
                      /\ containers' = containers \cup {i}
                 ELSE /\ Raise(i, CalledProcessError("docker create", Captured))
                      /\ UNCHANGED containers
    /\ UNCHANGED <<registry, conversion_dir, purge, active, req, loop_device, result, files, bare, loops, mounts>>

EmptySnapshot == [debian |-> FALSE, sbin |-> FALSE, init |-> FALSE]
PartialTar == [kind |-> "tar", full |-> FALSE, snap |-> EmptySnapshot]
FullTar(snap) == [kind |-> "tar", full |-> TRUE, snap |-> snap]

\* lines 92-98: open(tar_path, "wb") truncates or creates the archive, then
\* docker export writes it; check=True without capture_output
Export(i) ==
    /\ At(i, "export")
    /\ LET tar_path == TarPath(req[i].docker_image) IN
       \E ok \in BOOLEAN :
        /\ Charge(ok)
        /\ Logged(i, "export", ok)
        /\ IF ok THEN /\ files' = Put(files, tar_path,
                                      FullTar(registry[req[i].docker_image]))
                      /\ Goto(i, "dd") /\ UNCHANGED exc
                 ELSE /\ files' = Put(files, tar_path, PartialTar)
                      /\ Raise(i, CalledProcessError("docker export", None))
    /\ UNCHANGED <<registry, conversion_dir, purge, active, req, loop_device, result, bare, loops, mounts,
                   containers>>

\* bs=1M (line 105) and 1024 * 1024 (line 255)
MiB == 1048576
NewImage(size_mb) == [kind |-> "img", size |-> size_mb * MiB, ptable |-> FALSE,
                      mbr |-> FALSE, fstype |-> "none", tree |-> {}]

\* lines 101-106: dd if=/dev/zero of=img_path bs=1M count=disk_size_mb
Allocate(i) ==
    /\ At(i, "dd")
    /\ LET img_path == ImgPath(req[i].output_filename) IN
       \E ok \in BOOLEAN, written \in 0..req[i].disk_size_mb, opened \in BOOLEAN :
        /\ Charge(ok)
        /\ Logged(i, "dd", ok)
        /\ IF ok THEN /\ written = req[i].disk_size_mb /\ opened
                      /\ files' = Put(files, img_path, NewImage(written))
                      /\ Goto(i, "fdisk") /\ UNCHANGED exc
                 ELSE \* dd failed before or after it created the file
                      /\ written < req[i].disk_size_mb
                      /\ opened \/ written = 0
                      /\ files' = IF opened THEN Put(files, img_path, NewImage(written))
                                            ELSE files
                      /\ Raise(i, CalledProcessError("dd", Captured))
    /\ UNCHANGED <<registry, conversion_dir, purge, active, req, loop_device, result, bare, loops, mounts,
                   containers>>

\* lines 109-123: fdisk writes one bootable primary partition
Partition(i) ==
    /\ At(i, "fdisk")
    /\ LET img_path == ImgPath(req[i].output_filename) IN
       \E ok \in BOOLEAN :
        /\ ChargeUnless(ok, ~Exists(img_path))
        /\ Logged(i, "fdisk", ok)
        /\ IF ok THEN /\ files' = [files EXCEPT ![img_path].ptable = TRUE]
                      /\ Goto(i, "losetup") /\ UNCHANGED exc
                 ELSE /\ UNCHANGED files
                      /\ Raise(i, CalledProcessError("fdisk", Captured))
    /\ UNCHANGED <<registry, conversion_dir, purge, active, req, loop_device, result, bare, loops, mounts,
                   containers>>

\* lines 127-132: losetup -P --find --show img_path
Attach(i) ==
    /\ At(i, "losetup")
    /\ LET img_path == ImgPath(req[i].output_filename) IN
       \E ok, part \in BOOLEAN :
        /\ ChargeUnless(ok, ~Exists(img_path) \/ FreeDevs = {})
        /\ part => ok
        /\ Logged(i, "losetup", ok)
        /\ IF ok THEN /\ loops' = [loops EXCEPT ![FirstFree] =
                                      [file |-> img_path, autoclear |-> FALSE,
                                       part |-> part]]
                      /\ loop_device' = [loop_device EXCEPT ![i] = FirstFree]
                      /\ Goto(i, "mkfs") /\ UNCHANGED exc
                 ELSE /\ UNCHANGED <<loops, loop_device>>
                      /\ Raise(i, CalledProcessError("losetup", Captured))
    /\ UNCHANGED <<registry, conversion_dir, purge, active, req, result, files, bare, mounts, containers>>

\* the device manager creates the partition node of the loop device
\* invocation i attached, some time after losetup -P asked for the scan
PartitionNodeAppears(i) ==
    /\ i \in active /\ loop_device[i] # NoDevice
    /\ LET d == loop_device[i] IN
        /\ loops[d].file # NoFile /\ ~loops[d].part
        /\ loops' = [loops EXCEPT ![d].part = TRUE]
    /\ UNCHANGED <<registry, conversion_dir, purge, active, req, pc, exc, loop_device, result, log,
                   files, bare, mounts, containers, budget>>

\* lines 136-139: mkfs.<filesystem_type> on the partition; a type with no
\* mkfs binary makes subprocess.run raise FileNotFoundError; mkfs cannot open
\* a partition node that does not exist
Format(i) ==
    /\ At(i, "mkfs")
    /\ LET fs == req[i].filesystem_type
           img == FileOf(loop_device[i]) IN
       IF fs \notin InstalledMkfs
       THEN /\ Logged(i, "mkfs", FALSE)
            /\ Raise(i, OtherError("FileNotFoundError"))
            /\ UNCHANGED <<files, budget>>
       ELSE \E ok \in BOOLEAN :
            /\ ChargeUnless(ok, ~Exists(img) \/ ~loops[loop_device[i]].part)
            /\ Logged(i, "mkfs", ok)
            /\ IF ok THEN /\ files' = [files EXCEPT ![img].fstype = fs,
                                                    ![img].tree = {}]
                          /\ Goto(i, "mount") /\ UNCHANGED exc
                     ELSE /\ UNCHANGED files
                          /\ Raise(i, CalledProcessError("mkfs", Captured))
    /\ UNCHANGED <<registry, conversion_dir, purge, active, req, loop_device, result, bare, loops, mounts,
                   containers>>

\* line 143: os.makedirs(mount_point, exist_ok=True)
Directory == [kind |-> "dir"]

\* lines 142-146: mount the partition; check=True without capture_output
Mount(i) ==
    /\ At(i, "mount")
    /\ \E ok \in BOOLEAN :
        /\ Charge(ok)
        /\ Logged(i, "mount", ok)
        /\ files' = Put(files, MountPoint, Directory)
        /\ IF ok THEN /\ mounts' = Append(mounts, RootMount(loop_device[i]))
                      /\ Goto(i, "tar") /\ UNCHANGED exc
                 ELSE /\ UNCHANGED mounts
                      /\ Raise(i, CalledProcessError("mount", None))
    /\ UNCHANGED <<registry, conversion_dir, purge, active, req, loop_device, result, bare, loops,
                   containers>>

SnapshotTags(snap) ==
    {"rootfs"} \cup (IF snap.debian THEN {"debian"} ELSE {})
               \cup (IF snap.sbin THEN {"sbin"} ELSE {})
               \cup (IF snap.init THEN {"init"} ELSE {})

\* lines 151-153: tar -xf tar_path -C mount_point; check=True, no capture
Extract(i) ==
    /\ At(i, "tar")
    /\ LET tar_path == TarPath(req[i].docker_image)
           readable == Exists(tar_path) /\ files[tar_path].full IN
       \E ok \in BOOLEAN :
        /\ ChargeUnless(ok, ~readable)
        /\ Logged(i, "tar", ok)
        /\ IF ok THEN /\ files' = FilesAfterWrite(SnapshotTags(files[tar_path].snap))
                      /\ bare' = BareAfterWrite(SnapshotTags(files[tar_path].snap))
                      /\ Goto(i, "detect") /\ UNCHANGED exc
                 ELSE /\ UNCHANGED <<files, bare>>
                      /\ Raise(i, CalledProcessError("tar", None))
    /\ UNCHANGED <<registry, conversion_dir, purge, active, req, loop_device, result, loops, mounts, containers>>

\* line 159: is it a Debian/Ubuntu-based system?
Detect(i) ==
    /\ At(i, "detect")
    /\ Goto(i, IF "debian" \in CurrentTree THEN "bind_dev" ELSE "extlinux")
    /\ UNCHANGED <<registry, conversion_dir, purge, active, req, exc, loop_device, result, log, files, bare, loops,
                   mounts, containers, budget>>

BindLabels == <<"bind_dev", "bind_proc", "bind_sys">>
AfterBind == <<"bind_proc", "bind_sys", "script">>

\* lines 161-163: mount --bind /dev|/proc|/sys under the mount point, check=False
BindMount(i) ==
    \E n \in 1..3 :
        /\ At(i, BindLabels[n])
        /\ \E ok \in BOOLEAN :
            /\ ChargeUnless(ok, "rootfs" \notin CurrentTree)
            /\ Logged(i, BindLabels[n], ok)
            /\ mounts' = IF ok THEN Append(mounts, BindMountOn(BindNames[n], TopRootSrc))
                               ELSE mounts
        /\ Goto(i, AfterBind[n])
        /\ UNCHANGED <<registry, conversion_dir, purge, active, req, exc, loop_device, result, files, bare, loops,
                       containers>>

\* lines 166-175: write install_kernel.sh into the mounted tree
WriteScript(i) ==
    /\ At(i, "script")
    /\ files' = FilesAfterWrite({"install_kernel.sh"})
    /\ bare' = BareAfterWrite({"install_kernel.sh"})
    /\ Logged(i, "script", TRUE)
    /\ Goto(i, "chroot")
    /\ UNCHANGED <<registry, conversion_dir, purge, active, req, exc, loop_device, result, loops, mounts,
                   containers, budget>>

\* what the apt-get install of lines 169-170 leaves in the tree when it
\* installed linux-image-generic and systemd-sysv
InstalledByChroot == {"kernel", "sbin", "init", "init_pkg"}

\* the chroot command run with check=True: a nonzero exit leaves the try
AfterChrootChecked(ok) == IF ok THEN "extlinux" ELSE InnerFinally[1]
\* line 179, check=False: the exit status is not looked at
AfterChroot(ok) == "extlinux"

\* lines 177-179: chroot mount_point /install_kernel.sh, check=False; the
\* exit status is that of the script's last command, so the packages may be
\* installed or not whatever it is
Chroot(i) ==
    /\ At(i, "chroot")
    /\ \E ok, installed \in BOOLEAN :
        /\ ChargeUnless(ok, "install_kernel.sh" \notin CurrentTree)
        /\ installed => "install_kernel.sh" \in CurrentTree
        /\ Logged(i, "chroot", ok)
        /\ files' = IF installed THEN FilesAfterWrite(InstalledByChroot) ELSE files
        /\ bare' = IF installed THEN BareAfterWrite(InstalledByChroot) ELSE bare
        /\ Goto(i, AfterChroot(ok))
    /\ UNCHANGED <<registry, conversion_dir, purge, active, req, exc, loop_device, result, loops, mounts,
                   containers>>

\* lines 183-189: extlinux --install boot/extlinux, check=True, captured
InstallBootloader(i) ==
    /\ At(i, "extlinux")
    /\ \E ok \in BOOLEAN :
        /\ Charge(ok)
        /\ Logged(i, "extlinux", ok)
        /\ LET tags == IF ok THEN {"boot", "extlinux"} ELSE {"boot"} IN
             /\ files' = FilesAfterWrite(tags)
             /\ bare' = BareAfterWrite(tags)
        /\ IF ok THEN Goto(i, "config") /\ UNCHANGED exc
                 ELSE Raise(i, CalledProcessError("extlinux", Captured))
    /\ UNCHANGED <<registry, conversion_dir, purge, active, req, loop_device, result, loops, mounts, containers>>

\* lines 192-205: write extlinux.conf; the write can fail (ENOSPC, EROFS)
WriteConfig(i) ==
    /\ At(i, "config")
    /\ \E ok \in BOOLEAN :
        /\ Charge(ok)
        /\ Logged(i, "config", ok)
        /\ IF ok THEN /\ files' = FilesAfterWrite({"extlinux.conf"})
                      /\ bare' = BareAfterWrite({"extlinux.conf"})
                      /\ Goto(i, "init") /\ UNCHANGED exc
                 ELSE /\ UNCHANGED <<files, bare>>
                      /\ Raise(i, OtherError("OSError"))
    /\ UNCHANGED <<registry, conversion_dir, purge, active, req, loop_device, result, loops, mounts, containers>>

\* an init step without the test of line 208
InitMissingAlways(tree) == TRUE
\* line 208: not os.path.exists(f"{mount_point}/sbin/init")
InitMissing(tree) == "init" \notin tree
\* lines 217-219: the script is written and made executable (chmod 0o755)
SynthesizedInit == {"init", "init_synth", "init_exec"}

\* lines 208-219: write /sbin/init unless one exists; open() needs /sbin
WriteInit(i) ==
    /\ At(i, "init")
    /\ IF ~InitMissing(CurrentTree)
       THEN /\ Goto(i, InnerFinally[1])
            /\ UNCHANGED <<exc, log, files, bare>>
       ELSE IF "sbin" \in CurrentTree
       THEN /\ files' = FilesAfterWrite(SynthesizedInit)
            /\ bare' = BareAfterWrite(SynthesizedInit)
            /\ Logged(i, "init", TRUE)
            /\ Goto(i, InnerFinally[1]) /\ UNCHANGED exc
       ELSE /\ Logged(i, "init", FALSE)
            /\ Raise(i, OtherError("FileNotFoundError"))
            /\ UNCHANGED <<files, bare>>
    /\ UNCHANGED <<registry, conversion_dir, purge, active, req, loop_device, result, loops, mounts, containers,
                   budget>>

UmountTarget(label) ==
    IF label = "umount_root" THEN MountPoint
    ELSE IF label = "umount_dev" THEN ChildTarget("dev")
    ELSE IF label = "umount_proc" THEN ChildTarget("proc")
    ELSE ChildTarget("sys")

\* the loop devices after mount entry k is gone: a device detached while in
\* use (autoclear) is freed by its last unmount
LoopsAfterUmount(k) ==
    LET d == mounts[k].dev IN
    IF d # NoDevice /\ loops[d].autoclear THEN [loops EXCEPT ![d] = FreeLoop]
    ELSE loops

\* lines 224-227: umount, check=False; then on to the next command of the
\* finally, and after the last one to the finally of line 229
\* a finally whose umount is checked: a failure skips the umounts after it
AfterUmountChecked(n, ok) ==
    IF ok /\ n < Len(InnerFinally) THEN InnerFinally[n + 1] ELSE "detach"
\* lines 224-227, check=False: the next umount follows whatever the exit
\* status was, then the outer finally
AfterUmount(n, ok) ==
    IF n < Len(InnerFinally) THEN InnerFinally[n + 1] ELSE "detach"

Umount(i) ==
    \E n \in 1..Len(InnerFinally) :
        /\ At(i, InnerFinally[n])
        /\ LET target == UmountTarget(InnerFinally[n])
               k == UmountIdx(target) IN
           \E ok \in BOOLEAN :
            /\ ChargeUnless(ok, ~CanUmount(target))
            /\ Logged(i, InnerFinally[n], ok)
            /\ mounts' = IF ok THEN RemoveAt(mounts, k) ELSE mounts
            /\ loops' = IF ok THEN LoopsAfterUmount(k) ELSE loops
            /\ Goto(i, AfterUmount(n, ok))
        /\ UNCHANGED <<registry, conversion_dir, purge, active, req, exc, loop_device, result, files, bare,
                       containers>>

\* losetup -d on a device: freed at once, or marked autoclear while mounted
LoopsAfterDetach(d) ==
    IF IsMounted(d) THEN [loops EXCEPT ![d].autoclear = TRUE]
    ELSE [loops EXCEPT ![d] = FreeLoop]

\* lines 229-231: losetup -d loop_device, check=False; the pending exception,
\* if any, then propagates to the handlers of lines 262-276
Detach(i) ==
    /\ At(i, "detach")
    /\ LET d == loop_device[i] IN
       \E ok \in BOOLEAN :
        /\ ChargeUnless(ok, loops[d].file = NoFile)
        /\ Logged(i, "detach", ok)
        /\ loops' = IF ok THEN LoopsAfterDetach(d) ELSE loops
    /\ Goto(i, IF exc[i] # NoExc THEN "except" ELSE "mbr")
    /\ UNCHANGED <<registry, conversion_dir, purge, active, req, exc, loop_device, result, files, bare, mounts,
                   containers>>

\* bs=440 count=1 (line 236)
BootCodeBytes == 440
\* dd without conv=notrunc: the image is cut down to the boot code
ImageAfterBootSectorTruncated(img) ==
    [img EXCEPT !.mbr = TRUE, !.size = BootCodeBytes, !.ptable = FALSE]
\* line 236, conv=notrunc: the first 440 bytes are overwritten in place
ImageAfterBootSector(img) ==
    [img EXCEPT !.mbr = TRUE,
                !.size = IF @ < BootCodeBytes THEN BootCodeBytes ELSE @]

\* lines 235-238: dd bs=440 count=1 conv=notrunc of=img_path
WriteMBR(i) ==
    /\ At(i, "mbr")
    /\ LET img_path == ImgPath(req[i].output_filename) IN
       \E ok \in BOOLEAN :
        /\ Charge(ok)
        /\ Logged(i, "mbr", ok)
        /\ IF ok THEN /\ files' = Put(files, img_path,
                                      ImageAfterBootSector(
                                          IF Exists(img_path) THEN files[img_path]
                                                              ELSE NewImage(0)))
                      /\ Goto(i, "rm_tar") /\ UNCHANGED exc
                 ELSE /\ UNCHANGED files
                      /\ Raise(i, CalledProcessError("dd", Captured))
    /\ UNCHANGED <<registry, conversion_dir, purge, active, req, loop_device, result, bare, loops, mounts,
                   containers>>

\* lines 241-242: remove the archive if it exists
RemoveTar(i) ==
    /\ At(i, "rm_tar")
    /\ LET tar_path == TarPath(req[i].docker_image) IN
        /\ files' = IF Exists(tar_path) THEN Del(files, tar_path) ELSE files
        /\ Logged(i, "rm_tar", Exists(tar_path))
    /\ Goto(i, "docker_rm")
    /\ UNCHANGED <<registry, conversion_dir, purge, active, req, exc, loop_device, result, bare, loops, mounts,
                   containers, budget>>

\* line 245: docker rm container_id, check=False
RemoveContainer(i) ==
    /\ At(i, "docker_rm")
    /\ \E ok \in BOOLEAN :
        /\ Charge(ok)
        /\ Logged(i, "docker_rm", ok)
        /\ containers' = IF ok THEN containers \ {i} ELSE containers
    /\ Goto(i, "return")
    /\ UNCHANGED <<registry, conversion_dir, purge, active, req, exc, loop_device, result, files, bare, loops,
                   mounts>>

\* lines 248-260: measure the image and return the success dict
Return(i) ==
    /\ At(i, "return")
    /\ LET img_path == ImgPath(req[i].output_filename) IN
       IF Exists(img_path)
       THEN /\ result' = [result EXCEPT ![i] =
                   [status |-> "success", output_file |-> img_path,
                    file_size_mb |-> files[img_path].size \div MiB,
                    docker_image |-> req[i].docker_image,
                    disk_size_mb |-> req[i].disk_size_mb,
                    filesystem_type |-> req[i].filesystem_type]]
            /\ Goto(i, "done") /\ UNCHANGED exc
       ELSE /\ Raise(i, OtherError("FileNotFoundError"))
            /\ UNCHANGED result
    /\ UNCHANGED <<registry, conversion_dir, purge, active, req, loop_device, log, files, bare, loops, mounts,
                   containers, budget>>

\* lines 262-276: both handlers return a dict with status error
Except(i) ==
    /\ At(i, "except")
    /\ result' = [result EXCEPT ![i] = ResultOf(exc[i])]
    /\ Goto(i, "done")
    /\ UNCHANGED <<registry, conversion_dir, purge, active, req, exc, loop_device, log, files, bare, loops, mounts,
                   containers, budget>>

-----------------------------------------------------------------------------
(* cleanup_conversion_files, lines 305-312 *)

NoPurge == [called |-> FALSE, existed |-> FALSE, entries |-> {}, result |-> NoResult]

\* the entries of /tmp/conversion
Entries == DOMAIN files

\* lines 311-312: the dict returned
PurgeResult(existed) ==
    IF existed THEN [status |-> "success", message |-> "All conversion files cleaned up"]
    ELSE [status |-> "info", message |-> "No files to clean up"]

\* rmtree without the makedirs of line 310
DirAfterPurgeNotRecreated(existed) == FALSE
\* lines 308-310: an existing directory is removed and made again
DirAfterPurge(existed) == existed

\* lines 305-312
Purge ==
    /\ purge' = [called |-> TRUE, existed |-> conversion_dir, entries |-> Entries,
                 result |-> PurgeResult(conversion_dir)]
    /\ conversion_dir' = DirAfterPurge(conversion_dir)
    /\ files' = IF conversion_dir THEN <<>> ELSE files
    /\ bare' = IF conversion_dir THEN {} ELSE bare
    /\ UNCHANGED <<active, req, pc, exc, loop_device, result, log, loops, mounts,
                   containers, budget, registry>>

-----------------------------------------------------------------------------
(* Specifications *)

\* procs run, each on a request of requests[i], against a registry whose
\* images hold what holds[image] allows
InitWith(procs, requests, holds, faults) ==
    /\ active = procs
    /\ req \in [Procs -> Requests]
    /\ \A i \in Procs : IF i \in procs THEN req[i] \in requests[i]
                        ELSE req[i] = CHOOSE r \in Requests : TRUE
    /\ registry \in [DockerImages -> Snapshots]
    /\ \A im \in DockerImages :
          IF \E i \in procs : req[i].docker_image = im
          THEN registry[im] \in holds[im] ELSE registry[im] = EmptySnapshot
    /\ pc = [i \in Procs |-> IF i \in procs THEN "dockerd" ELSE "done"]
    /\ exc = [i \in Procs |-> NoExc]
    /\ loop_device = [i \in Procs |-> NoDevice]
    /\ result = [i \in Procs |-> NoResult]
    /\ log = [i \in Procs |-> <<>>]
    /\ files = <<>>
    /\ bare = {}
    /\ loops = [d \in LoopDevs |-> FreeLoop]
    /\ mounts = <<>>
    /\ containers = {}
    /\ budget = faults
    /\ conversion_dir = TRUE
    /\ purge = NoPurge

\* one invocation of convert, any request
Init == InitWith({1}, [i \in Procs |-> Requests],
                [im \in DockerImages |-> Snapshots], MaxFaults)

Next ==
    \E i \in Procs :
        \/ StartDaemon(i) \/ Pull(i) \/ Create(i) \/ Export(i)
        \/ Allocate(i) \/ Partition(i) \/ Attach(i) \/ PartitionNodeAppears(i)
        \/ Format(i) \/ Mount(i) \/ Extract(i) \/ Detect(i)
        \/ BindMount(i) \/ WriteScript(i) \/ Chroot(i)
        \/ InstallBootloader(i) \/ WriteConfig(i) \/ WriteInit(i)
        \/ Umount(i) \/ Detach(i) \/ WriteMBR(i)
        \/ RemoveTar(i) \/ RemoveContainer(i) \/ Return(i) \/ Except(i)

Spec == Init /\ [][Next]_vars

\* every step of a running invocation is eventually taken: each command
\* blocks until it exits, and Python then runs the next statement
FairSpec == Spec /\ WF_vars(Next)

\* two concurrent invocations with different output filenames
ConcRequests(i) ==
    {r \in Requests : /\ r.output_filename = IF i = 1 THEN "a.img" ELSE "b.img"
                      /\ r.docker_image \in IF i = 1 THEN {<<"d", ":", "s">>}
                                            ELSE {<<"a", ":", "l">>, <<"d", "/", "s">>}
                      /\ r.disk_size_mb = 1
                      /\ r.filesystem_type = "ext4"}
\* a Debian image with /sbin and no init, a minimal image with an init
ConcHolds(im) ==
    IF im[1] = "d" THEN {[debian |-> TRUE, sbin |-> TRUE, init |-> FALSE]}
    ELSE {[debian |-> FALSE, sbin |-> TRUE, init |-> TRUE]}
InitConc == InitWith(Procs, [i \in Procs |-> ConcRequests(i)],
                     [im \in DockerImages |-> ConcHolds(im)], MaxConcFaults)

SpecConc == InitConc /\ [][Next]_vars

\* what earlier conversions may have left in /tmp/conversion: each image
\* absent or of a MiB, each archive absent, partial or full, the mount point
Leftover(a, b, t, u, m) ==
    LET f1 == IF a > 0 THEN Put(<<>>, ImgPath("a.img"), NewImage(a)) ELSE <<>>
        f2 == IF b > 0 THEN Put(f1, ImgPath("b.img"), NewImage(b)) ELSE f1
        f3 == IF t = 0 THEN f2
              ELSE Put(f2, TarPath(<<"a", ":", "l">>),
                       IF t = 1 THEN PartialTar ELSE FullTar(EmptySnapshot))
        f4 == IF u = 0 THEN f3
              ELSE Put(f3, TarPath(<<"d", ":", "s">>),
                       IF u = 1 THEN PartialTar ELSE FullTar(EmptySnapshot))
    IN  IF m THEN Put(f4, MountPoint, Directory) ELSE f4

\* no conversion runs; the directory is absent, or present with leftovers
InitPurge ==
    /\ active = {}
    /\ req = [i \in Procs |-> CHOOSE r \in Requests : TRUE]
    /\ registry = [im \in DockerImages |-> EmptySnapshot]
    /\ pc = [i \in Procs |-> "done"]
    /\ exc = [i \in Procs |-> NoExc]
    /\ loop_device = [i \in Procs |-> NoDevice]
    /\ result = [i \in Procs |-> NoResult]
    /\ log = [i \in Procs |-> <<>>]
    /\ loops = [d \in LoopDevs |-> FreeLoop]
    /\ mounts = <<>>
    /\ containers = {}
    /\ budget = 0
    /\ purge = NoPurge
    /\ conversion_dir \in BOOLEAN
    /\ \E a, b \in 0..MaxDiskMb, t, u \in 0..2, m \in BOOLEAN :
          /\ files = IF conversion_dir THEN Leftover(a, b, t, u, m) ELSE <<>>
          /\ bare \in IF conversion_dir /\ m THEN {{}, {"rootfs"}} ELSE {{}}

NextPurge == Purge

SpecPurge == InitPurge /\ [][NextPurge]_vars

-----------------------------------------------------------------------------
(* Reading the log and the outcome of a run *)

Events(i, op) == {k \in 1..Len(log[i]) : log[i][k].op = op}
Ran(i, op) == Events(i, op) # {}
Succeeded(i, op) == \E k \in Events(i, op) : log[i][k].ok
Failed(i, op) == \E k \in Events(i, op) : ~log[i][k].ok
Returned(i) == i \in active /\ pc[i] = "done"
Attached(i) == loop_device[i] # NoDevice
Bound(d) == loops[d].file # NoFile

CleanupOps == {"umount_dev", "umount_proc", "umount_sys", "umount_root", "detach"}
ChildUmounts == {"umount_dev", "umount_proc", "umount_sys"}

-----------------------------------------------------------------------------
(* C1 *)

\* C1 as stated: once losetup succeeded, no returned result coexists with a
\* loop device that is still bound.
C1_DetachedOnReturn ==
    \A i \in active : Returned(i) /\ Attached(i) => ~Bound(loop_device[i])

\* C1, amended: once losetup succeeded, losetup -d has run on that device
\* exactly once by the time convert returns, whichever stage failed; the
\* device is unbound then if that command exited 0 and the partition was not
\* left mounted.
C1_DetachAttemptedOnReturn ==
    \A i \in active :
        Returned(i) /\ Attached(i) =>
            /\ Cardinality(Events(i, "detach")) = 1
            /\ Succeeded(i, "detach") /\ ~IsMounted(loop_device[i])
                   => ~Bound(loop_device[i])

\* a run that failed after the attach (format or mount) and returned an error
\* with its loop device free again
C1_Witness ==
    /\ Returned(1) /\ Attached(1) /\ result[1].status = "error"
    /\ Failed(1, "mkfs") \/ Failed(1, "mount")
    /\ Succeeded(1, "detach") /\ ~Bound(loop_device[1])

-----------------------------------------------------------------------------
(* C2 *)

\* C2: whenever umount has been run on the mount point, umount was run on
\* each of /dev, /proc and /sys under it before, and if the root mount was
\* released no bind mount is left on it; on success and on failure alike.
C2_ChildrenBeforeRoot ==
    \A i \in active : \A k \in Events(i, "umount_root") :
        /\ \A c \in ChildUmounts : \E j \in Events(i, c) : j < k
        /\ log[i][k].ok =>
               ~\E m \in 1..Len(mounts) : mounts[m].on = loop_device[i]

\* a run that made the three bind mounts, failed afterwards, and released
\* the three of them and then the root mount
C2_Witness ==
    /\ \A b \in {"bind_dev", "bind_proc", "bind_sys"} : Succeeded(1, b)
    /\ exc[1] # NoExc
    /\ \A c \in ChildUmounts : Succeeded(1, c)
    /\ Succeeded(1, "umount_root")

-----------------------------------------------------------------------------
(* C3 *)

\* C3: a run never stops before it returns, and what it returns has status
\* success or error: no exception leaves convert.
C3_AlwaysReturnsResult ==
    /\ (\A i \in active : pc[i] = "done") \/ ENABLED Next
    /\ \A i \in active :
          /\ Returned(i) => result[i].status \in {"success", "error"}
          /\ result[i].status # "none" => Returned(i)

\* a run whose failure was not a failed command (dockerd outlived its
\* timeout) and that returned an error result all the same
C3_Witness ==
    /\ Returned(1) /\ exc[1].kind = "TimeoutExpired"
    /\ result[1].status = "error"

-----------------------------------------------------------------------------
(* C4 *)

FatalStages == {"dd", "fdisk", "mkfs", "mount", "tar"}

\* C4: after a failed allocation, partitioning, format, mount or extraction
\* the run executes nothing but cleanup releases, and it returns error.
C4_FatalStopsProgress ==
    \A i \in active : \A k \in 1..Len(log[i]) :
        log[i][k].op \in FatalStages /\ ~log[i][k].ok =>
            /\ \A j \in (k + 1)..Len(log[i]) : log[i][j].op \in CleanupOps
            /\ pc[i] \notin InnerTry \cup OuterTry \cup {"mbr", "rm_tar", "docker_rm", "return"}
            /\ Returned(i) => result[i].status = "error"

\* a run whose extraction failed: it unmounted, detached and returned error
C4_Witness ==
    /\ Returned(1) /\ Failed(1, "tar") /\ result[1].status = "error"
    /\ Ran(1, "umount_root") /\ Ran(1, "detach")

-----------------------------------------------------------------------------
(* C5 *)

\* C5 as stated: a request whose filesystem type is not ext2, ext3 or ext4
\* allocates no image, binds no loop device, invokes no formatting tool, and
\* ends in an error result.
C5_InvalidFsTypeRejected ==
    \A i \in active :
        req[i].filesystem_type \notin DocumentedFsTypes =>
            /\ ~Ran(i, "dd") /\ ~Attached(i) /\ ~Ran(i, "mkfs")
            /\ Returned(i) => result[i].status = "error"

-----------------------------------------------------------------------------
(* C6 *)

\* C6 as stated: every error result names the failing stage, and when a
\* command exited nonzero it carries the command and its captured output.
C6_ErrorCarriesDiagnostics ==
    \A i \in active :
        Returned(i) /\ result[i].status = "error" =>
            /\ "stage" \in DOMAIN result[i]
            /\ exc[i].kind = "CalledProcessError" =>
                  /\ "command" \in DOMAIN result[i]
                  /\ "stderr" \in DOMAIN result[i]
                  /\ result[i].stderr # None

-----------------------------------------------------------------------------
(* C7 *)

\* C7 as stated: with different output filenames, what an instance sees and
\* changes at its mount point is its own partition, from its mount to its
\* unmount: no other instance mounts over it or releases it.
C7_OwnMountPoint ==
    \A i \in active :
        pc[i] \in InnerTry => TopRootSrc = loop_device[i]

-----------------------------------------------------------------------------
(* C8 *)

\* C8 as stated: once the archive was created, it no longer exists when
\* convert returns, on success and on every failure after the export.
C8_ArchiveDeletedOnReturn ==
    \A i \in active :
        Returned(i) /\ Ran(i, "export") => ~Exists(TarPath(req[i].docker_image))

-----------------------------------------------------------------------------
(* C9 *)

\* C9 as stated: when dd or fdisk failed, no image file is left at the
\* output path when convert returns.
C9_NoOrphanImage ==
    \A i \in active :
        Returned(i) /\ (Failed(i, "dd") \/ Failed(i, "fdisk"))
            => ~Exists(ImgPath(req[i].output_filename))

-----------------------------------------------------------------------------
(* C10 *)

\* C10 as stated: the boot-sector write runs only after extlinux and
\* extlinux.conf were written into the partition, and never while the
\* partition is still mounted, a failed umount included.
C10_BootSectorAfterUnmount ==
    \A i \in active :
        Ran(i, "mbr") =>
            /\ Succeeded(i, "extlinux") /\ Succeeded(i, "config")
            /\ ~IsMounted(loop_device[i])

-----------------------------------------------------------------------------
(* C11 *)

\* C11: a success result reports file_size_mb = disk_size_mb = the N of the
\* request, and the image file is N MiB long: neither fdisk nor the
\* boot-sector write changed its length.
C11_SizeIsRequestedMiB ==
    \A i \in active :
        Returned(i) /\ result[i].status = "success" =>
            /\ result[i].file_size_mb = req[i].disk_size_mb
            /\ result[i].disk_size_mb = req[i].disk_size_mb
            /\ files[result[i].output_file].size = req[i].disk_size_mb * MiB
            /\ files[result[i].output_file].ptable
            /\ files[result[i].output_file].mbr

\* a successful run of a request for more than one MiB
C11_Witness ==
    /\ Returned(1) /\ result[1].status = "success"
    /\ req[1].disk_size_mb = MaxDiskMb /\ result[1].file_size_mb = MaxDiskMb

-----------------------------------------------------------------------------
(* C12 *)

\* C12 as stated: cleanup_conversion_files returns info when the directory
\* held no entries, and success when it held some, the directory then being
\* present and empty.
C12_InfoWhenEmpty ==
    purge.called =>
        IF purge.entries = {} THEN purge.result.status = "info"
        ELSE /\ purge.result.status = "success"
             /\ conversion_dir /\ Entries = {}

\* C12, amended: cleanup_conversion_files returns info exactly when the
\* directory did not exist, and leaves it absent; it returns success whenever
\* the directory existed, empty or not, and the directory then exists and
\* holds no entries.
C12_InfoWhenAbsent ==
    purge.called =>
        /\ purge.result.status = (IF purge.existed THEN "success" ELSE "info")
        /\ conversion_dir = purge.existed
        /\ Entries = {} /\ bare = {}

\* a purge of a directory that held files
C12_Witness ==
    /\ purge.called /\ purge.entries # {} /\ purge.result.status = "success"
    /\ conversion_dir /\ Entries = {}

-----------------------------------------------------------------------------
(* C13 *)

BootstrapOps == {"bind_dev", "bind_proc", "bind_sys", "chroot"}
\* the statement that follows each command of the chroot installation
AfterBootstrapOp(op) ==
    IF op = "bind_dev" THEN "bind_proc"
    ELSE IF op = "bind_proc" THEN "bind_sys"
    ELSE IF op = "bind_sys" THEN "script"
    ELSE "extlinux"

\* C13: a failed bind mount of /dev, /proc or /sys, or a nonzero exit of the
\* chroot install, raises nothing: the run is at the next statement, and the
\* next command it runs is the next one of the pipeline (after chroot, the
\* bootloader installation).
C13_BootstrapFailureNotFatal ==
    \A i \in active : \A k \in 1..Len(log[i]) :
        log[i][k].op \in BootstrapOps /\ ~log[i][k].ok =>
            IF k = Len(log[i])
            THEN exc[i] = NoExc /\ pc[i] = AfterBootstrapOp(log[i][k].op)
            ELSE log[i][k + 1].op = AfterBootstrapOp(log[i][k].op)

\* a run whose bind mount of /dev and whose chroot install failed, and that
\* installed the bootloader and returned success
C13_Witness ==
    /\ Returned(1) /\ result[1].status = "success"
    /\ Failed(1, "bind_dev") /\ Failed(1, "chroot")
    /\ Succeeded(1, "extlinux") /\ Succeeded(1, "mbr")

-----------------------------------------------------------------------------
(* C14 *)

IsCleanup(e) == e.op \in CleanupOps
\* the release commands invocation i has run, in order
Releases(i) ==
    LET c == SelectSeq(log[i], IsCleanup) IN [k \in 1..Len(c) |-> c[k].op]
IsPrefix(s, t) == Len(s) <= Len(t) /\ \A k \in 1..Len(s) : s[k] = t[k]

\* the releases of a run whose mount succeeded must be r, in this order, and
\* those of a run that attached and did not mount only the detach
ReleasesFollow(i, r) ==
    LET due == IF Succeeded(i, "mount") THEN r ELSE <<"detach">> IN
        /\ IsPrefix(Releases(i), due)
        /\ Returned(i) /\ Attached(i) => Releases(i) = due

-----------------------------------------------------------------------------
(* C15 *)

\* the command that acquires the mount each umount of the finally releases
AcquiredBy(u) ==
    IF u = "umount_dev" THEN "bind_dev"
    ELSE IF u = "umount_proc" THEN "bind_proc"
    ELSE IF u = "umount_sys" THEN "bind_sys"
    ELSE "mount"

\* C15 as stated: umount is run on a mount only if this run acquired it, and
\* exactly once by the return on each mount it acquired; a run that made no
\* bind mounts attempts no bind unmount.
C15_UnmountExactlyTheHeld ==
    \A i \in active : \A u \in ChildUmounts \cup {"umount_root"} :
        /\ Ran(i, u) => Succeeded(i, AcquiredBy(u))
        /\ Cardinality(Events(i, u)) <= 1
        /\ Returned(i) /\ Succeeded(i, AcquiredBy(u)) => Ran(i, u)

-----------------------------------------------------------------------------
(* C16 *)

\* the release commands that follow release command c in lines 224-231
ReleaseOrder == InnerFinally \o <<"detach">>
ReleasesAfter(c) ==
    {ReleaseOrder[m] : m \in {k \in 1..Len(ReleaseOrder) :
                                \E n \in 1..(k - 1) : ReleaseOrder[n] = c}}

\* C16: once a release command has failed, every release command after it is
\* still run: on return all of them have run, the loop detach included.
C16_FailedReleaseDoesNotBlock ==
    \A i \in active : \A c \in CleanupOps :
        Returned(i) /\ Failed(i, c) =>
            \A d \in ReleasesAfter(c) : Ran(i, d)

\* the /dev bind mount was made and its umount failed all the same (a busy
\* target), the root umount failed too, and the later releases were run
C16_Witness ==
    \E i \in active :
        /\ Returned(i)
        /\ Succeeded(i, "bind_dev") /\ Failed(i, "umount_dev")
        /\ Succeeded(i, "umount_proc") /\ Succeeded(i, "umount_sys")
        /\ Failed(i, "umount_root")
        /\ Ran(i, "detach")

-----------------------------------------------------------------------------
(* C17 *)

\* C17 as stated: when losetup has returned and the formatting tool is the
\* next command, the partition node of the attached device exists.
C17_PartitionNodeBeforeFormat ==
    \A i \in active :
        pc[i] = "mkfs" => loops[loop_device[i]].part

-----------------------------------------------------------------------------
(* C18 *)

\* the bind mounts sitting on the tree of loop device d
BindsHeldOn(d) ==
    {k \in 1..Len(mounts) : mounts[k].dev = NoDevice /\ mounts[k].on = d}

\* C18 as stated: while the bootloader files or the boot configuration are
\* about to be written, no bind mount made by the run is still held.
C18_BindsReleasedBeforeBootloader ==
    \A i \in active :
        pc[i] \in {"extlinux", "config"} /\ Ran(i, "chroot") =>
            BindsHeldOn(loop_device[i]) = {}

-----------------------------------------------------------------------------
(* C19 *)

\* the tree inside the output image of invocation i
ImageTree(i) == files[ImgPath(req[i].output_filename)].tree
\* the snapshot or the chroot install brought an init
InitProvided(i) ==
    registry[req[i].docker_image].init \/ "init_pkg" \in ImageTree(i)

\* C19: the image of a run that returned success holds /sbin/init; the
\* synthesized one is there, executable, exactly when neither the snapshot
\* nor the chroot install provided one.
C19_InitPresentNeverOverwritten ==
    \A i \in active :
        Returned(i) /\ result[i].status = "success" =>
            /\ "init" \in ImageTree(i)
            /\ "init_synth" \in ImageTree(i) <=> ~InitProvided(i)
            /\ "init_synth" \in ImageTree(i) => "init_exec" \in ImageTree(i)

\* a success whose bootstrap stage ran without installing an init, so that
\* the synthesized one was written
C19_Witness ==
    \E i \in active :
        /\ Returned(i) /\ result[i].status = "success"
        /\ Ran(i, "chroot") /\ Succeeded(i, "init")
        /\ "init_synth" \in ImageTree(i)

-----------------------------------------------------------------------------
(* C20 *)

\* the commands run with check=True from the allocation on (lines 100-238)
FatalCommands == {"dd", "fdisk", "losetup", "mkfs", "mount", "tar", "extlinux", "mbr"}
\* the other statements whose failure raises: the timeout of the daemon start
\* (line 74), the check=True docker commands of lines 78-98 and the file
\* writes of lines 204 and 217
FatalSteps == FatalCommands \cup {"dockerd", "pull", "create", "export", "config", "init"}
\* the commands run with check=False and no timeout
BestEffort == {"bind_dev", "bind_proc", "bind_sys", "chroot",
               "umount_dev", "umount_proc", "umount_sys", "umount_root",
               "detach", "docker_rm"}

====
